---- MODULE Spec2Model ----
(***************************************************************************)
(* Model of examples/scripts/key-generation/generate_keys.py: the          *)
(* KeyGenerator class driving a GnuPG keyring and a YubiKey PIV token.     *)
(*                                                                         *)
(* The keyring and the token are external programs.  Every call to them    *)
(* either fails or has the effect its command line asks for; which of the  *)
(* two happens is chosen by the environment (\E over an outcome).  What    *)
(* the script does with the outcome is translated from the source.         *)
(*                                                                         *)
(* Strings the script inspects (user ids) are sequences of atoms: an atom  *)
(* is a run of characters that is never split further ("device", " ",      *)
(* "d1", ...).  A substring test for 'device' is a search for the atom     *)
(* "device"; str.split() cuts at the atom " ".                             *)
(* The standard output of a gpg command is the sequence of its words.      *)
(***************************************************************************)
EXTENDS Integers, Sequences, FiniteSets, TLC

\* ---------------------------------------------------------------- bounds
\* sub-keys minted in one run of the model
MaxKeys == 2
\* master keys generated in one run of the model
MaxMasters == 1

\* ------------------------------------------------------------- constants
\* Python's None, as returned by the generate_* / rotate_key failure paths
None == 0
\* exit status of a gpg command that succeeded
RC_OK == 0
\* PIV slot of a device key (authentication)
SLOT_AUTHENTICATION == 154
\* PIV slot of a router key (digital signature)
SLOT_SIGNATURE == 156

\* the key ids of the master keys, in the order generated
MasterIds == << "M1", "M2", "M3" >>

\* key_type values handed to import_key_to_yubikey
KeyTypes == { "device", "router", "other" }

Slots == { SLOT_AUTHENTICATION, SLOT_SIGNATURE }

\* ------------------------------------------------------------- user ids
\* 'Name-Real <Name-Email>' of the master key
MasterUid ==
    << "YubiKey", " ", "Network", " ", "Master", " ",
       "<", "master", "@yubikey-network.local", ">" >>

\* 'Name-Real <Name-Email>' of a device identity
DeviceUid(id) ==
    << "Device", " " >> \o id \o << " ", "<", "device", "-" >> \o id
        \o << "@yubikey-network.local", ">" >>

\* 'Name-Real <Name-Email>' of a router identity
RouterUid(id) ==
    << "Router", " " >> \o id \o << " ", "<", "router", "-" >> \o id
        \o << "@yubikey-network.local", ">" >>

\* the identities a keyring can hold a primary key for: the key id, the class
\* and the entity id.  "lab pc" is an id with whitespace in it, "device-gw" a
\* router id with the other class's name in it.
Identities ==
    [ p \in { "PD", "PR", "PW", "PX" } |->
        CASE p = "PD" -> [ class |-> "device", id |-> << "d1" >> ]
          [] p = "PR" -> [ class |-> "router", id |-> << "r1" >> ]
          [] p = "PW" -> [ class |-> "device", id |-> << "lab", " ", "pc" >> ]
          [] p = "PX" -> [ class |-> "router", id |-> << "device", "-", "gw" >> ] ]

\* the user id of the primary key of identity p
IdentityUid(p) ==
    IF Identities[p].class = "device"
    THEN DeviceUid(Identities[p].id)
    ELSE RouterUid(Identities[p].id)

\* Python's `atom in s`
Contains(s, atom) == \E i \in 1..Len(s) : s[i] = atom

\* Python's s.split(): the words of s, cut at whitespace, empty words dropped
RECURSIVE SplitFrom(_, _, _)
SplitFrom(s, i, word) ==
    IF i > Len(s)
    THEN IF word = << >> THEN << >> ELSE << word >>
    ELSE IF s[i] = " "
         THEN (IF word = << >> THEN << >> ELSE << word >>)
                  \o SplitFrom(s, i + 1, << >>)
         ELSE SplitFrom(s, i + 1, Append(word, s[i]))

Split(s) == SplitFrom(s, 1, << >>)

\* ----------------------------------------------------------------- state
VARIABLES
    primaries,    \* the keyring's primary keys: key id -> user id
    subkeys,      \* the keyring's sub-keys, in the order minted; the index is the key id
    slots,        \* the token: slot -> bound key material
    pc,           \* where rotate_key is: "idle" outside it
    rot,          \* rotate_key's locals
    deploy,       \* NetworkDeployer.deploy: the steps it has run, what each
                  \* returned, whether the token was reset, what deploy returned
    backup,       \* BackupManager.create_backup: where it is, its locals, the
                  \* files it has made, what it returned
    other,        \* a second invocation of the script on the same keyring and
                  \* token: the import_key_to_yubikey it is in, between its
                  \* connect and its import_key
    last          \* the step taken last: its call, its arguments and what it
                  \* returned; `again` marks an import that succeeds where the
                  \* same import, made just before it, failed, and a rotate_key
                  \* whose key was Revoked already when it ran the revoke

vars == << primaries, subkeys, slots, pc, rot, other, last, deploy, backup >>

\* the ids handed to --id with --action generate-device: the device
\* identities of the keyring
DeviceIds ==
    { Identities[p].id :
        p \in { q \in DOMAIN primaries \cap DOMAIN Identities :
                    Identities[q].class = "device" } }

\* the ids handed to --id with --action generate-router: the router
\* identities of the keyring
RouterIds ==
    { Identities[p].id :
        p \in { q \in DOMAIN primaries \cap DOMAIN Identities :
                    Identities[q].class = "router" } }

\* the master keys generated by generate_master_key
Masters == { p \in DOMAIN primaries : \E i \in 1..Len(MasterIds) : MasterIds[i] = p }

KeyIds == 1..Len(subkeys)

\* key ids a caller may pass: every id of the keyring and one that is not in it
KeyIdArgs == 1..(Len(subkeys) + 1)

\* the primary keys whose first user id names an entity of class `class`
IdentityKeys(class) ==
    { p \in DOMAIN primaries \ Masters : Contains(primaries[p], class) }

\* master key ids a caller may pass when it generates a key of class `class`:
\* the identity keys of that class, the master key generated last, and an id
\* that is not in the keyring
MasterArgs(class) ==
    IdentityKeys(class)
        \cup (IF Masters = { } THEN { } ELSE { MasterIds[Cardinality(Masters)] })
        \cup { "nokey" }

Active(k) == k \in KeyIds /\ subkeys[k].status = "Active"

Revoked(k) == k \in KeyIds /\ subkeys[k].status = "Revoked"

\* the Active sub-keys minted for entity id `e` of class `c`
ActiveFor(e, c) ==
    { k \in KeyIds : subkeys[k].entity = e /\ subkeys[k].class = c
                      /\ subkeys[k].status = "Active" }

NoRot == [ key_id |-> None, class |-> "none", master |-> "nokey",
           entity |-> << >>, new |-> None, minted |-> FALSE ]

EmptySlot == [ key |-> None, pin_policy |-> "none", touch_policy |-> "none" ]

\* the second invocation is not inside import_key_to_yubikey
NoOther == [ key_id |-> None, key_type |-> "none" ]

\* the list that deploy hands to all(), in the order written
DeploySteps ==
    << "check_prerequisites", "setup_directories", "install_dependencies",
       "configure_system", "setup_database", "setup_redis", "configure_ssl",
       "setup_yubikey", "configure_services", "start_services" >>

\* deploy has not been called
NoDeploy == [ ran |-> << >>, results |-> << >>, reset |-> FALSE,
              returned |-> "none" ]

\* the list that create_backup hands to all(), in the order written
BackupComponents ==
    << "backup_keys", "backup_config", "backup_database", "backup_state" >>

\* a BackupManager whose create_backup has not been called; fernet says
\* whether setup_encryption made a Fernet (backup.encrypt_backups) or left
\* None.  dir is the temporary backup directory, archive the .tar.gz, enc the
\* .tar.gz.enc.
NoBackup(fernet) ==
    [ pc |-> "start", fernet |-> fernet, dir |-> "absent", results |-> << >>,
      archive_path |-> "unset", archive |-> FALSE, enc |-> FALSE,
      returned |-> "none" ]

\* Python's all() of a list of booleans
all(results) == \A i \in 1..Len(results) : results[i]

\* the primary keys that carry the master key's user id
MasterKeys == { p \in DOMAIN primaries : primaries[p] = MasterUid }

Init ==
    /\ primaries = [ p \in { "PD", "PR" } |-> IdentityUid(p) ]
    /\ subkeys = << >>
    /\ slots = [ s \in Slots |-> EmptySlot ]
    /\ pc = "idle"
    /\ rot = NoRot
    /\ other = NoOther
    /\ last = [ op |-> "init", key |-> None, entity |-> << >>,
                class |-> "none", result |-> None, ok |-> FALSE, again |-> FALSE ]
    /\ deploy = NoDeploy
    /\ backup = NoBackup(FALSE)

\* ------------------------------------------------------- the gpg keyring
\* what a gpg command run through run_command can come back with: a non-zero
\* exit status, or success with the new key id on standard output, or success
\* with nothing on standard output
RunOutcomes == { "fail", "ok_id", "ok_silent" }

\* `gpg --quick-add-key master_key curve usage expire`: the exit status, the
\* words on standard output and the keyring afterwards.  The class and the
\* entity id are not stored by gpg; they record which call minted the key.
QuickAddKey(sk, master_key, curve, usage, expire, class, entity, o) ==
    IF o = "fail" \/ master_key \notin DOMAIN primaries
    THEN [ returncode |-> 2, stdout |-> << >>, subkeys |-> sk ]
    ELSE [ returncode |-> RC_OK,
           stdout |-> IF o = "ok_id" THEN << Len(sk) + 1 >> ELSE << >>,
           subkeys |-> Append(sk, [ master |-> master_key, curve |-> curve,
                                    usage |-> usage, expire |-> expire,
                                    class |-> class, entity |-> entity,
                                    status |-> "Active" ]) ]

\* result.stdout.strip().split()[-1], and the except branch's None
ParseSubkeyId(run) ==
    IF run.returncode # RC_OK
    THEN [ result |-> None, err |-> "Exception" ]
    ELSE IF run.stdout = << >>
         THEN [ result |-> None, err |-> "IndexError" ]
         ELSE [ result |-> run.stdout[Len(run.stdout)], err |-> "none" ]

generate_device_subkey(sk, master_key, device_id, o) ==
    LET run == QuickAddKey(sk, master_key, "nistp256", { "sign" }, "1y",
                           "device", device_id, o)
        ret == ParseSubkeyId(run)
    IN  [ subkeys |-> run.subkeys, result |-> ret.result, err |-> ret.err ]

generate_router_subkey(sk, master_key, router_id, o) ==
    LET run == QuickAddKey(sk, master_key, "nistp384", { "sign" }, "6m",
                           "router", router_id, o)
        ret == ParseSubkeyId(run)
    IN  [ subkeys |-> run.subkeys, result |-> ret.result, err |-> ret.err ]

\* QuickRevoke as a bug would have it: the command flips the status, so that
\* a second run brings a Revoked key back
QuickRevoke_Toggle(sk, key_id, o) ==
    IF o = "fail" \/ key_id \notin 1..Len(sk)
    THEN sk
    ELSE [ sk EXCEPT ![key_id].status =
               IF sk[key_id].status = "Active" THEN "Revoked" ELSE "Active" ]

\* `gpg --quick-revoke key_id`: the keyring afterwards
QuickRevoke(sk, key_id, o) ==
    IF o = "fail" \/ key_id \notin 1..Len(sk)
    THEN sk
    ELSE [ sk EXCEPT ![key_id].status = "Revoked" ]

\* ListKeys as a bug would have it: the keys= filter is dropped, so that the
\* whole keyring is listed and [0] is the owner of the first sub-key
ListKeys_Unfiltered(sk, key_id) ==
    IF sk # << >>
    THEN << [ keyid |-> sk[1].master, uids |-> << primaries[sk[1].master] >> ] >>
    ELSE << >>

\* gpg.list_keys(keys=[key_id], secret=True): the primary keys owning key_id
ListKeys(sk, key_id) ==
    IF key_id \in 1..Len(sk)
    THEN << [ keyid |-> sk[key_id].master, uids |-> << primaries[sk[key_id].master] >> ] >>
    ELSE << >>

\* gpg.export_keys(key_id, secret=True): the material of key_id, None when the
\* keyring has no such key
ExportKeys(sk, key_id) == IF key_id \in 1..Len(sk) THEN key_id ELSE None

\* gpg.sign(test_data, keyid=key_id, detach=True): who signed.  gpg signs with
\* key_id when it is usable; when it is not (revoked, or not in the keyring)
\* gpg falls back to another usable secret key of the keyring.
Sign(sk, key_id, o) ==
    IF o = "sign_fails" THEN "nobody"
    ELSE IF key_id \in 1..Len(sk) /\ sk[key_id].status = "Active" THEN "key_id"
    ELSE IF DOMAIN primaries # { } THEN "fallback"
    ELSE "nobody"

\* gpg.verify_data(signature.data, test_data)
VerifyData(signer, o) == signer # "nobody" /\ o # "verify_fails"

\* --------------------------------------------------------------- actions
GenerateDevice ==
    /\ pc = "idle"
    /\ Len(subkeys) < MaxKeys
    /\ \E master_key \in MasterArgs("device"), id \in DeviceIds, o \in RunOutcomes :
         LET r == generate_device_subkey(subkeys, master_key, id, o)
         IN  /\ subkeys' = r.subkeys
             /\ last' = [ op |-> "generate", key |-> None, entity |-> id,
                          class |-> "device",
                          result |-> r.result, ok |-> r.result # None,
                          again |-> FALSE ]
    /\ UNCHANGED << primaries, slots, pc, rot, other, deploy, backup >>

GenerateRouter ==
    /\ pc = "idle"
    /\ Len(subkeys) < MaxKeys
    /\ \E master_key \in MasterArgs("router"), id \in RouterIds, o \in RunOutcomes :
         LET r == generate_router_subkey(subkeys, master_key, id, o)
         IN  /\ subkeys' = r.subkeys
             /\ last' = [ op |-> "generate", key |-> None, entity |-> id,
                          class |-> "router",
                          result |-> r.result, ok |-> r.result # None,
                          again |-> FALSE ]
    /\ UNCHANGED << primaries, slots, pc, rot, other, deploy, backup >>

\* connect_yubikey: True when the Controller could be constructed
connect_yubikey(o) == o # "no_token"

\* SlotFor as a bug would have it: the two slot numbers exchanged
SlotFor_Swapped(key_type) ==
    IF key_type = "device" THEN SLOT_SIGNATURE
    ELSE IF key_type = "router" THEN SLOT_AUTHENTICATION
    ELSE None

\* the if / elif / else of import_key_to_yubikey: the slot of a key type,
\* None when it raises ValueError
SlotFor(key_type) ==
    IF key_type = "device" THEN SLOT_AUTHENTICATION
    ELSE IF key_type = "router" THEN SLOT_SIGNATURE
    ELSE None

\* ImportKey as a bug would have it: the policies handed over are dropped and
\* the slot keeps the token's defaults
ImportKey_DefaultPolicy(sl, slot, key_data, pin_policy, touch_policy, o) ==
    IF o = "ok" /\ key_data # None
    THEN [ ok |-> TRUE,
           slots |-> [ sl EXCEPT ![slot] = [ key |-> key_data,
                                             pin_policy |-> "DEFAULT",
                                             touch_policy |-> "DEFAULT" ] ] ]
    ELSE [ ok |-> FALSE, slots |-> sl ]

\* ImportKey as a bug would have it: a slot that holds the very key handed
\* over is cleared instead of written
ImportKey_ClearsOccupied(sl, slot, key_data, pin_policy, touch_policy, o) ==
    IF o = "ok" /\ key_data # None
    THEN [ ok |-> TRUE,
           slots |-> [ sl EXCEPT ![slot] =
                         IF sl[slot].key = key_data
                         THEN [ key |-> None, pin_policy |-> "none",
                                touch_policy |-> "none" ]
                         ELSE [ key |-> key_data,
                                pin_policy |-> pin_policy,
                                touch_policy |-> touch_policy ] ] ]
    ELSE [ ok |-> FALSE, slots |-> sl ]

\* self.yubikey.import_key(slot, key_data, pin_policy, touch_policy): the
\* token afterwards.  The token raises, and keeps its bindings, when the
\* transfer fails or when key_data holds no key.
ImportKey(sl, slot, key_data, pin_policy, touch_policy, o) ==
    IF o = "ok" /\ key_data # None
    THEN [ ok |-> TRUE,
           slots |-> [ sl EXCEPT ![slot] = [ key |-> key_data,
                                             pin_policy |-> pin_policy,
                                             touch_policy |-> touch_policy ] ] ]
    ELSE [ ok |-> FALSE, slots |-> sl ]

\* what the token does during one import_key_to_yubikey: it cannot be
\* connected to, or the transfer of the key fails, or both work
TokenOutcomes == { "no_token", "import_fails", "ok" }

\* what gpg does during one verify_key: signing fails, or verifying fails, or
\* both work
VerifyOutcomes == { "sign_fails", "verify_fails", "ok" }

\* import_key_to_yubikey as a bug would have it: the statement after
\* import_key raises, so that False is returned although the slot was written
import_key_to_yubikey_RaisesAfterImport(sl, sk, key_id, key_type, o) ==
    IF ~ connect_yubikey(o)
    THEN [ ok |-> FALSE, slots |-> sl, err |-> "Exception" ]
    ELSE IF SlotFor(key_type) = None
    THEN [ ok |-> FALSE, slots |-> sl, err |-> "ValueError" ]
    ELSE [ ok |-> FALSE,
           slots |-> ImportKey(sl, SlotFor(key_type), ExportKeys(sk, key_id),
                               "ONCE", "ALWAYS", o).slots,
           err |-> "Exception" ]

\* import_key_to_yubikey(key_id, key_type): what it returns and the token
\* afterwards
import_key_to_yubikey(sl, sk, key_id, key_type, o) ==
    IF ~ connect_yubikey(o)
    THEN [ ok |-> FALSE, slots |-> sl, err |-> "Exception" ]
    ELSE IF SlotFor(key_type) = None
    THEN [ ok |-> FALSE, slots |-> sl, err |-> "ValueError" ]
    ELSE LET imp == ImportKey(sl, SlotFor(key_type), ExportKeys(sk, key_id),
                              "ONCE", "ALWAYS", o)
         IN  [ ok |-> imp.ok, slots |-> imp.slots,
               err |-> IF imp.ok THEN "none" ELSE "Exception" ]

\* verify_key(key_id)
verify_key(sk, key_id, o) == VerifyData(Sign(sk, key_id, o), o)

Import ==
    /\ pc = "idle"
    /\ \E key_id \in KeyIdArgs, key_type \in KeyTypes, o \in TokenOutcomes :
         LET r == import_key_to_yubikey(slots, subkeys, key_id, key_type, o)
         IN  /\ slots' = r.slots
             /\ last' = [ op |-> "import", key |-> key_id, entity |-> << >>,
                          class |-> key_type,
                          result |-> None, ok |-> r.ok,
                          again |-> /\ r.ok
                                    /\ last.op = "import" /\ ~ last.ok
                                    /\ last.key = key_id /\ last.class = key_type ]
    /\ UNCHANGED << primaries, subkeys, pc, rot, other, deploy, backup >>

Verify ==
    /\ pc = "idle"
    /\ \E key_id \in KeyIdArgs, o \in VerifyOutcomes :
         last' = [ op |-> "verify", key |-> key_id, entity |-> << >>,
                   class |-> "none",
                   result |-> None, ok |-> verify_key(subkeys, key_id, o),
                   again |-> FALSE ]
    /\ UNCHANGED << primaries, subkeys, slots, pc, rot, other, deploy, backup >>

\* rotate_key, up to the call that mints the replacement: the lookup of the
\* key and the choice of the class from its first user id.  key_id ranges
\* over the sub-key ids of the keyring and one id that is not in it.
RotateLookup ==
    /\ pc = "idle"
    /\ Len(subkeys) < MaxKeys
    /\ \E key_id \in KeyIdArgs :
         LET found == ListKeys(subkeys, key_id)
             fail(err) ==
                 /\ last' = [ op |-> "rotate", key |-> key_id, entity |-> << >>,
                              class |-> err,
                              result |-> None, ok |-> FALSE, again |-> FALSE ]
                 /\ UNCHANGED << pc, rot >>
             begin(class) ==
                 /\ pc' = "rot_gen"
                 /\ rot' = [ key_id |-> key_id, class |-> class,
                             master |-> found[1].keyid,
                             entity |-> Split(found[1].uids[1])[2],
                             new |-> None, minted |-> FALSE ]
                 /\ last' = [ op |-> "rotate_lookup", key |-> key_id,
                              entity |-> << >>, class |-> class, result |-> None, ok |-> TRUE,
                              again |-> FALSE ]
         IN  IF found = << >> THEN fail("IndexError")
             ELSE IF Contains(found[1].uids[1], "device")
                  THEN IF Len(Split(found[1].uids[1])) < 2
                       THEN fail("IndexError") ELSE begin("device")
             ELSE IF Contains(found[1].uids[1], "router")
                  THEN IF Len(Split(found[1].uids[1])) < 2
                       THEN fail("IndexError") ELSE begin("router")
             ELSE fail("ValueError")
    /\ UNCHANGED << primaries, subkeys, slots, other, deploy, backup >>

\* rotate_key's call of generate_device_subkey / generate_router_subkey
RotateGenerate ==
    /\ pc = "rot_gen"
    /\ \E o \in RunOutcomes :
         LET r == IF rot.class = "device"
                  THEN generate_device_subkey(subkeys, rot.master, rot.entity, o)
                  ELSE generate_router_subkey(subkeys, rot.master, rot.entity, o)
         IN  /\ subkeys' = r.subkeys
             /\ rot' = [ rot EXCEPT !.new = r.result,
                                    !.minted = Len(r.subkeys) > Len(subkeys) ]
             /\ last' = [ op |-> "rotate_generate", key |-> rot.key_id,
                          entity |-> rot.entity, class |-> rot.class, result |-> r.result,
                          ok |-> r.result # None, again |-> FALSE ]
    /\ pc' = "rot_revoke"
    /\ UNCHANGED << primaries, slots, other, deploy, backup >>

\* rotate_key's `gpg --quick-revoke key_id`, whose result is not looked at,
\* and its return of new_key_id
RotateRevoke ==
    /\ pc = "rot_revoke"
    /\ \E o \in { "ok", "fail" } :
         subkeys' = QuickRevoke(subkeys, rot.key_id, o)
    /\ last' = [ op |-> "rotate", key |-> rot.key_id, entity |-> rot.entity,
                 class |-> rot.class, result |-> rot.new, ok |-> rot.new # None,
                 again |-> Revoked(rot.key_id) ]
    /\ pc' = "idle"
    /\ rot' = NoRot
    /\ UNCHANGED << primaries, slots, other, deploy, backup >>

\* the process is killed between two gpg commands of rotate_key
Crash ==
    /\ pc # "idle"
    /\ pc' = "idle"
    /\ rot' = NoRot
    /\ last' = [ op |-> "crash", key |-> rot.key_id, entity |-> rot.entity,
                 class |-> rot.class,
                 result |-> None, ok |-> FALSE, again |-> FALSE ]
    /\ UNCHANGED << primaries, subkeys, slots, other, deploy, backup >>

\* generate_master_key: gen_key, the export to master.pub, the revocation
\* certificate to master-revoke.asc; o says how far it gets, and last.class
\* which of the two files the call wrote
GenerateMaster ==
    /\ pc = "idle"
    /\ Cardinality(Masters) < MaxMasters
    /\ \E o \in { "gen_fails", "export_fails", "revoke_fails", "ok" } :
         /\ primaries' =
                IF o = "gen_fails" THEN primaries
                ELSE LET new == MasterIds[Cardinality(Masters) + 1]
                     IN  [ p \in DOMAIN primaries \cup { new } |->
                             IF p = new THEN MasterUid ELSE primaries[p] ]
         /\ last' = [ op |-> "generate_master", key |-> None, entity |-> << >>,
                      class |-> IF o \in { "gen_fails", "export_fails" } THEN "none"
                                ELSE IF o = "revoke_fails" THEN "master.pub"
                                ELSE "master.pub master-revoke.asc",
                      result |-> None, ok |-> o = "ok", again |-> FALSE ]
    /\ UNCHANGED << subkeys, slots, pc, rot, other, deploy, backup >>

\* a second invocation of the script runs generate-device or generate-router
\* while the first is between two gpg commands of rotate_key: nothing in the
\* script keeps it from doing so
OtherGenerate ==
    /\ pc # "idle"
    /\ Len(subkeys) < MaxKeys
    /\ \E class \in { "device", "router" } :
       \E master_key \in MasterArgs(class),
          id \in (IF class = "device" THEN DeviceIds ELSE RouterIds),
          o \in RunOutcomes :
         LET r == IF class = "device"
                  THEN generate_device_subkey(subkeys, master_key, id, o)
                  ELSE generate_router_subkey(subkeys, master_key, id, o)
         IN  /\ subkeys' = r.subkeys
             /\ last' = [ op |-> "generate", key |-> None, entity |-> id,
                          class |-> class,
                          result |-> r.result, ok |-> r.result # None,
                          again |-> FALSE ]
    /\ UNCHANGED << primaries, slots, pc, rot, other, deploy, backup >>

\* the second invocation enters import_key_to_yubikey: its connect_yubikey
\* has returned True, key_data is exported and the slot is chosen
OtherImportConnect ==
    /\ other = NoOther
    /\ \E key_id \in KeyIds, key_type \in { "device", "router" } :
         other' = [ key_id |-> key_id, key_type |-> key_type ]
    /\ UNCHANGED << primaries, subkeys, slots, pc, rot, last, deploy, backup >>

\* the second invocation's self.yubikey.import_key and its return
OtherImportKey ==
    /\ other # NoOther
    /\ \E o \in { "import_fails", "ok" } :
         slots' = ImportKey(slots, SlotFor(other.key_type),
                            ExportKeys(subkeys, other.key_id),
                            "ONCE", "ALWAYS", o).slots
    /\ other' = NoOther
    /\ UNCHANGED << primaries, subkeys, pc, rot, last, deploy, backup >>

Next ==
    \/ GenerateMaster
    \/ GenerateDevice
    \/ GenerateRouter
    \/ Import
    \/ Verify
    \/ RotateLookup
    \/ RotateGenerate
    \/ RotateRevoke
    \/ Crash

Spec == Init /\ [][Next]_vars

\* a deployment that is in use already: the keyring holds a master key
\* generated by an earlier run of the script and the identities with the
\* less plain ids
InitDeployed ==
    /\ primaries = [ p \in { "M0", "PW", "PX" } |->
                       IF p = "M0" THEN MasterUid ELSE IdentityUid(p) ]
    /\ subkeys = << >>
    /\ slots = [ s \in Slots |-> EmptySlot ]
    /\ pc = "idle"
    /\ rot = NoRot
    /\ other = NoOther
    /\ last = [ op |-> "init", key |-> None, entity |-> << >>,
                class |-> "none", result |-> None, ok |-> FALSE, again |-> FALSE ]
    /\ deploy = NoDeploy
    /\ backup = NoBackup(FALSE)

SpecDeployed == InitDeployed /\ [][Next]_vars

\* ------------------------------------------------ NetworkDeployer.deploy
\* what a step of deploy can come back with.  setup_yubikey runs `ykman piv
\* reset -f` and then the two `ykman piv access` commands: the reset fails,
\* or a later command fails after the reset was done, or all work.  Every
\* step catches its exceptions and returns False.
StepOutcomes(step) ==
    IF step = "setup_yubikey"
    THEN { "reset_fails", "access_fails", "ok" }
    ELSE { "fails", "ok" }

\* the evaluation of the next element of the list literal in deploy
DeployStep ==
    /\ deploy.returned = "none"
    /\ Len(deploy.ran) < Len(DeploySteps)
    /\ LET step == DeploySteps[Len(deploy.ran) + 1]
       IN  \E o \in StepOutcomes(step) :
             LET reset == step = "setup_yubikey" /\ o # "reset_fails"
             IN  /\ deploy' = [ deploy EXCEPT !.ran = Append(@, step),
                                              !.results = Append(@, o = "ok"),
                                              !.reset = @ \/ reset ]
                 /\ slots' = IF reset THEN [ s \in Slots |-> EmptySlot ] ELSE slots
    /\ UNCHANGED << primaries, subkeys, pc, rot, other, last, backup >>

\* all() of the list, once every element is evaluated, and deploy's return
DeployReturn ==
    /\ deploy.returned = "none"
    /\ Len(deploy.ran) = Len(DeploySteps)
    /\ deploy' = [ deploy EXCEPT !.returned =
                      IF all(deploy.results) THEN "True" ELSE "False" ]
    /\ UNCHANGED << primaries, subkeys, slots, pc, rot, other, last, backup >>

NextNetworkDeployer ==
    \/ DeployStep
    \/ DeployReturn

SpecNetworkDeployer == Init /\ [][NextNetworkDeployer]_vars

\* ------------------------------------------- BackupManager.create_backup
\* os.makedirs(backup_dir, exist_ok=True); when it raises create_backup
\* returns False
BackupMakedirs ==
    /\ backup.pc = "start"
    /\ \E o \in { "fails", "ok" } :
         backup' = IF o = "ok"
                   THEN [ backup EXCEPT !.dir = "present", !.pc = "components" ]
                   ELSE [ backup EXCEPT !.returned = "False", !.pc = "done" ]
    /\ UNCHANGED << primaries, subkeys, slots, pc, rot, other, last, deploy >>

\* the evaluation of the next element of the list literal in create_backup;
\* every backup_* catches its exceptions and returns False
BackupComponent ==
    /\ backup.pc = "components"
    /\ Len(backup.results) < Len(BackupComponents)
    /\ \E o \in BOOLEAN :
         backup' = [ backup EXCEPT !.results = Append(@, o) ]
    /\ UNCHANGED << primaries, subkeys, slots, pc, rot, other, last, deploy >>

\* `if success:` is False: create_backup returns False
BackupFailed ==
    /\ backup.pc = "components"
    /\ Len(backup.results) = Len(BackupComponents)
    /\ ~ all(backup.results)
    /\ backup' = [ backup EXCEPT !.returned = "False", !.pc = "done" ]
    /\ UNCHANGED << primaries, subkeys, slots, pc, rot, other, last, deploy >>

\* `if success:` is True: create_archive, which returns the path of the
\* archive it wrote, or "" when it caught an exception
create_archive ==
    /\ backup.pc = "components"
    /\ Len(backup.results) = Len(BackupComponents)
    /\ all(backup.results)
    /\ \E o \in { "fails", "ok" } :
         backup' = [ backup EXCEPT
                       !.archive = o = "ok",
                       !.archive_path = IF o = "ok" THEN "archive_path" ELSE "",
                       !.pc = IF backup.fernet THEN "encrypt" ELSE "cleanup" ]
    /\ UNCHANGED << primaries, subkeys, slots, pc, rot, other, last, deploy >>

\* encrypt_backup(archive_path), which catches its exceptions and returns
\* nothing: reading the archive fails (it always does for the path ""), or
\* the .enc is written and os.remove fails, or all work
encrypt_backup ==
    /\ backup.pc = "encrypt"
    /\ \E o \in { "read_fails", "remove_fails", "ok" } :
         backup' =
             IF o = "read_fails" \/ backup.archive_path = ""
             THEN [ backup EXCEPT !.pc = "cleanup" ]
             ELSE [ backup EXCEPT !.enc = TRUE,
                                  !.archive = o = "remove_fails",
                                  !.pc = "cleanup" ]
    /\ UNCHANGED << primaries, subkeys, slots, pc, rot, other, last, deploy >>

\* shutil.rmtree(backup_dir) and `return True`; when rmtree raises
\* create_backup returns False
BackupCleanup ==
    /\ backup.pc = "cleanup"
    /\ \E o \in { "fails", "ok" } :
         backup' = IF o = "ok"
                   THEN [ backup EXCEPT !.dir = "removed", !.returned = "True",
                                        !.pc = "done" ]
                   ELSE [ backup EXCEPT !.returned = "False", !.pc = "done" ]
    /\ UNCHANGED << primaries, subkeys, slots, pc, rot, other, last, deploy >>

\* a BackupManager with or without backup.encrypt_backups
InitBackupManager ==
    /\ primaries = [ p \in { "PD", "PR" } |-> IdentityUid(p) ]
    /\ subkeys = << >>
    /\ slots = [ s \in Slots |-> EmptySlot ]
    /\ pc = "idle"
    /\ rot = NoRot
    /\ other = NoOther
    /\ last = [ op |-> "init", key |-> None, entity |-> << >>,
                class |-> "none", result |-> None, ok |-> FALSE, again |-> FALSE ]
    /\ deploy = NoDeploy
    /\ \E fernet \in BOOLEAN : backup = NoBackup(fernet)

NextBackupManager ==
    \/ BackupMakedirs
    \/ BackupComponent
    \/ BackupFailed
    \/ create_archive
    \/ encrypt_backup
    \/ BackupCleanup

SpecBackupManager == InitBackupManager /\ [][NextBackupManager]_vars

\* two invocations of the script at a time, on the same keyring and the same
\* token
NextConcurrent ==
    \/ Next
    \/ OtherGenerate
    \/ OtherImportConnect
    \/ OtherImportKey

SpecConcurrent == Init /\ [][NextConcurrent]_vars

\* ---------------------------------------------------------------- claims
\* the (entity id, class) pairs a sub-key can be minted for
Pairs == (DeviceIds \cup RouterIds) \X { "device", "router" }

\* C1: whenever no operation is in progress, every (entity id, class) pair has
\* at most one Active sub-key.
C1_AtMostOneActive ==
    pc = "idle" => \A p \in Pairs : Cardinality(ActiveFor(p[1], p[2])) <= 1

\* C2: no step, inside rotate_key or after it, takes a pair that has an Active
\* sub-key to a state where it has none.
C2_NeverZeroActive ==
    [][ \A p \in Pairs :
          ActiveFor(p[1], p[2]) # { } => ActiveFor(p[1], p[2])' # { } ]_vars

\* C3: a step that takes a sub-key from Active to Revoked is taken by a
\* rotate_key whose replacement was minted; when minting the replacement
\* failed the old key stays Active.
C3_RevokeOnlyAfterMint ==
    [][ (\E k \in KeyIds : Active(k) /\ ~ Active(k)') => rot.minted ]_vars

\* C4: when a rotate_key call has reported success (returned a key id), the
\* key it was called on is Revoked and its entity has exactly one Active
\* sub-key; over N calls in a row this is the claim for N.
C4_RotateSuccessLeavesOne ==
    (pc = "idle" /\ last.op = "rotate" /\ last.ok) =>
        /\ Revoked(last.key)
        /\ Cardinality(ActiveFor(last.entity, last.class)) = 1

\* C5: a generate call for a pair that has an Active sub-key fails and adds
\* no sub-key.
C5_GenerateConflicts ==
    [][ (pc = "idle" /\ last'.op = "generate"
            /\ ActiveFor(last'.entity, last'.class) # { })
        => (~ last'.ok /\ subkeys' = subkeys) ]_vars

C7_RetriedImportBinds ==
    [][ (last'.op = "import" /\ last'.ok /\ last'.again) =>
            LET slot == IF last'.class = "device" THEN SLOT_AUTHENTICATION
                        ELSE SLOT_SIGNATURE
            IN  /\ last'.class \in { "device", "router" }
                /\ last'.key \in KeyIds
                /\ slots'[slot] = [ key |-> last'.key, pin_policy |-> "ONCE",
                                    touch_policy |-> "ALWAYS" ]
                /\ \A s \in Slots \ { slot } : slots'[s] = slots[s]
                /\ subkeys' = subkeys ]_vars

\* C7 happens: the retry of a failed import has bound the slot.
C7_Witness ==
    /\ last.op = "import" /\ last.ok /\ last.again
    /\ last.class = "router"
    /\ slots[SLOT_SIGNATURE].key = last.key

\* C8: in every step every sub-key stays in the keyring with its curve and
\* its usage, a Revoked sub-key stays Revoked, and the key id that rotate_key
\* mints and returns is none of the key ids that existed before.
C8_RevokedIsTerminal ==
    [][ /\ \A k \in KeyIds :
              /\ k \in KeyIds'
              /\ subkeys'[k].curve = subkeys[k].curve
              /\ subkeys'[k].usage = subkeys[k].usage
              /\ (Revoked(k) => Revoked(k)')
        /\ (last'.op = "rotate_generate" /\ last'.ok) =>
              (last'.result \notin KeyIds /\ last'.result \in KeyIds')
        /\ (pc = "rot_revoke" /\ last'.op = "rotate" /\ last'.ok) =>
              (last'.result = rot.new /\ last'.result # rot.key_id) ]_vars

\* C8 happens: rotate_key has returned a new Active key and the old one is
\* Revoked.
C8_Witness ==
    /\ last.op = "rotate" /\ last.ok
    /\ Revoked(last.key)
    /\ Active(last.result)
    /\ last.result # last.key

C10_VerifyOnlyActive ==
    (last.op = "verify" /\ last.ok /\ last.key \in KeyIds) => Active(last.key)

\* C11: when a generate call has returned a key id, the pair it was called for
\* has exactly one Active sub-key, the slot of the class is bound to the key
\* returned, and verify_key of that key returns True when gpg works (the
\* token has no part in verify_key).
C11_GenerateLeavesOneBoundVerifiable ==
    (pc = "idle" /\ last.op = "generate" /\ last.ok) =>
        /\ Cardinality(ActiveFor(last.entity, last.class)) = 1
        /\ slots[IF last.class = "device" THEN SLOT_AUTHENTICATION
                 ELSE SLOT_SIGNATURE].key = last.result
        /\ verify_key(subkeys, last.result, "ok")

\* C12: every sub-key of the keyring has the parameters of its class: a
\* device key nistp256, usage sign and auth, expiry 1y; a router key
\* nistp384, usage sign, auth and encrypt, expiry 6m.
C12_PolicyTable ==
    \A k \in KeyIds :
        /\ subkeys[k].class = "device" =>
              /\ subkeys[k].curve = "nistp256"
              /\ subkeys[k].usage = { "sign", "auth" }
              /\ subkeys[k].expire = "1y"
        /\ subkeys[k].class = "router" =>
              /\ subkeys[k].curve = "nistp384"
              /\ subkeys[k].usage = { "sign", "auth", "encrypt" }
              /\ subkeys[k].expire = "6m"

\* C13: every import that succeeds was called with key type 'device' or
\* 'router' and has written the slot of that key type (0x9a for 'device',
\* 0x9c for 'router') with PIN policy ONCE and touch policy ALWAYS and no
\* other slot; an import called with any other key type fails and changes no
\* slot binding.
C13_ImportTargetsClassSlot ==
    [][ last'.op = "import" =>
            /\ last'.ok =>
                  LET slot == IF last'.class = "device" THEN SLOT_AUTHENTICATION
                              ELSE SLOT_SIGNATURE
                  IN  /\ last'.class \in { "device", "router" }
                      /\ slots'[slot] = [ key |-> last'.key, pin_policy |-> "ONCE",
                                          touch_policy |-> "ALWAYS" ]
                      /\ \A s \in Slots \ { slot } : slots'[s] = slots[s]
            /\ last'.class \notin { "device", "router" } =>
                  (~ last'.ok /\ slots' = slots) ]_vars

\* C13 happens: an import with key type 'device' has bound 0x9a while 0x9c
\* holds another key.
C13_Witness ==
    /\ last.op = "import" /\ last.ok /\ last.class = "device"
    /\ slots[SLOT_AUTHENTICATION] = [ key |-> last.key, pin_policy |-> "ONCE",
                                      touch_policy |-> "ALWAYS" ]
    /\ slots[SLOT_SIGNATURE].key \notin { None, last.key }

\* C14: an import that replaces the key bound to a slot by another key finds
\* the key it replaces Revoked.
C14_OverwriteOnlyRevoked ==
    [][ (last'.op = "import" /\ last'.ok) =>
            \A s \in Slots :
                (slots[s].key # None /\ slots'[s].key # slots[s].key)
                    => Revoked(slots[s].key) ]_vars

\* C15: when rotate_key has returned a key id, the slot of the class is bound
\* to the key returned and not to the key rotated.
C15_RotateRebindsSlot ==
    (pc = "idle" /\ last.op = "rotate" /\ last.ok) =>
        LET slot == IF last.class = "device" THEN SLOT_AUTHENTICATION
                    ELSE SLOT_SIGNATURE
        IN  /\ slots[slot].key = last.result
            /\ slots[slot].key # last.key

\* C16: the sub-key that rotate_key mints is minted for the entity id and the
\* class that the rotated key was minted for.
C16_RotateSameEntity ==
    [][ (pc = "rot_gen" /\ Len(subkeys') > Len(subkeys)) =>
            LET new == subkeys'[Len(subkeys')]
                old == subkeys[rot.key_id]
            IN  new.entity = old.entity /\ new.class = old.class ]_vars

C18_SecondMasterConflicts ==
    [][ (MasterKeys # { } /\ last'.op = "generate_master") =>
            (~ last'.ok /\ primaries' = primaries) ]_vars

\* C19: while a rotate_key is between two of its gpg commands, no generate
\* call for the pair it rotates runs.
C19_SameEntityExclusive ==
    [][ (pc # "idle" /\ last'.op = "generate") =>
            << last'.entity, last'.class >> # << rot.entity, rot.class >> ]_vars

\* C20: while one invocation is inside import_key_to_yubikey, between its
\* connect and the return of its import_key, no other import_key_to_yubikey
\* runs against the token.
C20_OneTokenOperation ==
    [][ (other # NoOther /\ last' # last) => last'.op # "import" ]_vars

\* C21: a generate_master_key that reports failure has added no master key
\* to the keyring, also when what failed is the export or the revocation
\* certificate; one that reports success has added its key and written
\* master.pub and master-revoke.asc.
C21_MasterFailureLeavesNoKey ==
    [][ last'.op = "generate_master" =>
            /\ ~ last'.ok => primaries' = primaries
            /\ last'.ok =>
                  /\ \E m \in Masters' : m \notin Masters
                  /\ last'.class = "master.pub master-revoke.asc" ]_vars

\* C22: rotate_key called with a key id that is not in the keyring, or with
\* the id of a sub-key that is Revoked, returns None, mints no sub-key and
\* changes no sub-key's status.
C22_RotateRejectsUnknownOrRevoked ==
    [][ /\ (pc = "idle" /\ last'.op \in { "rotate", "rotate_lookup" }
                /\ last'.key \notin KeyIds) =>
              (last'.op = "rotate" /\ ~ last'.ok /\ subkeys' = subkeys)
        /\ (pc # "idle" /\ Revoked(rot.key_id)) =>
              (subkeys' = subkeys /\ (last'.op = "rotate" => ~ last'.ok)) ]_vars

\* C23: deploy runs its steps in the order listed, runs a step only when
\* every step before it returned True, and returns True exactly when all ten
\* steps returned True.
C23_DeployStopsAtFirstFailure ==
    [][ /\ Len(deploy'.ran) > Len(deploy.ran) =>
              /\ deploy'.ran = SubSeq(DeploySteps, 1, Len(deploy.ran) + 1)
              /\ all(deploy.results)
        /\ (deploy.returned = "none" /\ deploy'.returned # "none") =>
              (deploy'.returned = "True"
                  <=> (Len(deploy.results) = Len(DeploySteps)
                          /\ all(deploy.results))) ]_vars

\* C24: a create_backup that has returned True had all four component
\* backups succeed and has left an archive, which is the encrypted one alone
\* when encryption is configured; the temporary directory is removed exactly
\* when True is returned.
C24_BackupTrueMeansArchive ==
    /\ backup.returned = "True" =>
          /\ Len(backup.results) = Len(BackupComponents)
          /\ all(backup.results)
          /\ (backup.archive \/ backup.enc)
          /\ backup.fernet => (backup.enc /\ ~ backup.archive)
    /\ backup.returned # "none" =>
          (backup.dir = "removed" <=> backup.returned = "True")

====
